---- MODULE Spec2Model ----
(***************************************************************************)
(* A model of the neuro-cohort-bot pipeline: fetch -> clean -> categorize  *)
(* -> format (reads the posted-URL ledger) -> deliver to the channel       *)
(* (writes the ledger) -> status report -> run monitor.                    *)
(*                                                                         *)
(* Time is counted in days.  One step of an action is the code between two *)
(* suspension points (await) of the asyncio coroutine, or one stage of the *)
(* synchronous part of data_collection_pipeline.                           *)
(***************************************************************************)
EXTENDS Integers, Sequences, FiniteSets, TLC

(***************************************************************************)
(* Bounds of the model.                                                    *)
(***************************************************************************)
\* runs of data_collection_pipeline in one behaviour
MaxRuns == 2
\* rate-limit answers the channel gives in one run (specification Spec only)
MaxRateLimits == 1
MaxItems == 4
MaxLines == 2
MaxRaw == 3
MaxLedger == 3
\* The cap of message_formatter.py:22.  The program sets 5000; the model takes
\* a small cap so that a ledger over it fits.  Every use compares a size with
\* it or cuts a list at it.
MAX_STORED_URLS == 2

(***************************************************************************)
(* Program constants.                                                      *)
(***************************************************************************)
\* message_formatter.py:19
URL_RETENTION_DAYS == 90
\* telegram_bot.py:51, the wait used when no retry time can be parsed
DEFAULT_RETRY == 30
\* main.py:96, a status report every 48th run
REPORT_EVERY == 48
\* main.py:195, default of message_delay_seconds
MESSAGE_DELAY == 3
\* status_monitor.py:76 keeps 50 errors
MAX_ERRORS == 50
\* status_monitor.py:99, the expected seconds between two runs
EXPECTED_INTERVAL == 1800

\* The first day of a behaviour.  time.time() is far larger than the retention
\* window, so a timestamp of 0 is always expired: Epoch > URL_RETENTION_DAYS.
Epoch == 100

Min2(a, b) == IF a <= b THEN a ELSE b

(***************************************************************************)
(* Items.  A missing or None field of the item dict is the empty string    *)
(* (both are falsy in the code's tests).                                   *)
(***************************************************************************)
CategoryOrder == <<"news", "events", "jobs", "videos/courses", "facts">>
CategoryNames == {CategoryOrder[i] : i \in 1..Len(CategoryOrder)}

Item(id, title, url, category, source) ==
    [id |-> id, title |-> title, url |-> url, category |-> category, source |-> source]

\* What the sources can return in the model.
ItA == Item("", "tA", "A", "news", "s1")
ItB == Item("", "tB", "B", "events", "s1")
ItB2 == Item("", "tB", "B", "events", "s2")
ItC == Item("", "tC", "C", "", "s2")
ItNoUrl == Item("", "tD", "", "news", "s2")

\* The lists fetch_data returns in the model, sources s1 then s2.
FetchOutputs ==
    { <<>>, <<ItA, ItNoUrl>>, <<ItB, ItC, ItB2>> }

SourceNames == {"s1", "s2"}

(***************************************************************************)
(* The posted-URL ledger file: a sequence of lines.  A line "url|ts" is    *)
(* [url, ts] with ts >= 0; a line without '|' (old format) has ts = NoPipe;*)
(* a line whose text after the last '|' is no number has ts = BadTs.       *)
(***************************************************************************)
NoPipe == -1
BadTs == -2

Line(url, ts) == [url |-> url, ts |-> ts]

\* The text of the whole line, as line.strip() gives it, for the two shapes
\* the code keeps whole.
WholeLine(e) == IF e.ts = BadTs THEN e.url \o "|x" ELSE e.url

\* A variant of _is_url_expired that expires an entry on the cutoff itself.
is_url_expired_on_cutoff(timestamp, clock) ==
    LET cutoff == clock - URL_RETENTION_DAYS
    IN  timestamp <= cutoff

\* message_formatter.py:68-71
is_url_expired(timestamp, clock) ==
    LET cutoff == clock - URL_RETENTION_DAYS
    IN  timestamp < cutoff

\* message_formatter.py:32-47: the set the read loop builds from the lines.
RECURSIVE ReadPostedUrls(_, _)
ReadPostedUrls(file, clock) ==
    IF file = <<>> THEN {}
    ELSE LET e == Head(file)
             rest == ReadPostedUrls(Tail(file), clock)
         IN  IF e.ts >= 0
             THEN IF ~is_url_expired(e.ts, clock) THEN {e.url} \cup rest ELSE rest
             ELSE {WholeLine(e)} \cup rest

\* message_formatter.py:80-96: (url, timestamp) pairs, 0 when nothing parses.
RECURSIVE UrlsWithTimestamps(_)
UrlsWithTimestamps(file) ==
    IF file = <<>> THEN <<>>
    ELSE LET e == Head(file)
         IN  <<IF e.ts >= 0 THEN Line(e.url, e.ts) ELSE Line(WholeLine(e), 0)>>
             \o UrlsWithTimestamps(Tail(file))

\* list.sort(key=timestamp, reverse=True): stable, newest first.
RECURSIVE InsertNewestFirst(_, _)
InsertNewestFirst(e, sorted) ==
    IF sorted = <<>> THEN <<e>>
    ELSE IF Head(sorted).ts >= e.ts
         THEN <<Head(sorted)>> \o InsertNewestFirst(e, Tail(sorted))
         ELSE <<e>> \o sorted

RECURSIVE SortNewestFirst(_)
SortNewestFirst(s) ==
    IF s = <<>> THEN <<>>
    ELSE InsertNewestFirst(s[Len(s)], SortNewestFirst(SubSeq(s, 1, Len(s) - 1)))

\* A variant of _purge_old_urls without the sort of line 98.
purge_old_urls_unsorted(file) ==
    LET all == UrlsWithTimestamps(file)
    IN  SubSeq(all, 1, Min2(Len(all), MAX_STORED_URLS))

\* message_formatter.py:73-109: the file _purge_old_urls writes back.
purge_old_urls(file) ==
    LET sorted == SortNewestFirst(UrlsWithTimestamps(file))
    IN  SubSeq(sorted, 1, Min2(Len(sorted), MAX_STORED_URLS))

\* message_formatter.py:49-52: purge when the set read is over the cap.
PurgeNeeded(file, clock) == Cardinality(ReadPostedUrls(file, clock)) > MAX_STORED_URLS

\* A variant of load_posted_urls that purges at every load.
load_posted_urls_always_purges(file, clock, readOk) ==
    IF ~readOk THEN [urls |-> {}, file |-> file]
    ELSE [urls |-> ReadPostedUrls(file, clock), file |-> purge_old_urls(file)]

\* message_formatter.py:24-57: load_posted_urls as [urls, file']; a read that
\* fails gives the empty set and leaves the file alone.
load_posted_urls(file, clock, readOk) ==
    IF ~readOk THEN [urls |-> {}, file |-> file]
    ELSE [urls |-> ReadPostedUrls(file, clock),
          file |-> IF PurgeNeeded(file, clock) THEN purge_old_urls(file) ELSE file]

\* A variant of save_posted_url whose line has not reached the file when the
\* function returns.
save_posted_url_unwritten(file, url, clock, writeOk) == file

\* message_formatter.py:59-66: append "url|now"; a write that fails is a no-op.
save_posted_url(file, url, clock, writeOk) ==
    IF writeOk THEN Append(file, Line(url, clock)) ELSE file

(***************************************************************************)
(* clean_data, categorize_data, format_message.                            *)
(***************************************************************************)
\* data_cleaner.py:23
Identifier(item) == IF item.id # "" THEN item.id ELSE item.title

\* data_cleaner.py:33-52
is_relevant(item) == item.title # "" /\ item.url # ""

\* A variant of Dedupe that keeps the last item of an identifier, not the first.
RECURSIVE Dedupe_keeps_last(_, _)
Dedupe_keeps_last(data, seen) ==
    IF data = <<>> THEN <<>>
    ELSE LET item == Head(data)
             identifier == Identifier(item)
             later == {Identifier(Tail(data)[k]) : k \in 1..(Len(data) - 1)}
         IN  IF identifier # "" /\ identifier \notin later
             THEN <<item>> \o Dedupe_keeps_last(Tail(data), seen)
             ELSE Dedupe_keeps_last(Tail(data), seen)

\* A variant of Dedupe that forgets an identifier when it drops a duplicate.
RECURSIVE Dedupe_forgets_seen(_, _)
Dedupe_forgets_seen(data, seen) ==
    IF data = <<>> THEN <<>>
    ELSE LET item == Head(data)
             identifier == Identifier(item)
         IN  IF identifier # "" /\ identifier \notin seen
             THEN <<item>> \o Dedupe_forgets_seen(Tail(data), seen \cup {identifier})
             ELSE Dedupe_forgets_seen(Tail(data), seen \ {identifier})

\* data_cleaner.py:18-26, the first pass
RECURSIVE Dedupe(_, _)
Dedupe(data, seen) ==
    IF data = <<>> THEN <<>>
    ELSE LET item == Head(data)
             identifier == Identifier(item)
         IN  IF identifier # "" /\ identifier \notin seen
             THEN <<item>> \o Dedupe(Tail(data), seen \cup {identifier})
             ELSE Dedupe(Tail(data), seen)

\* A variant of clean_data without the first pass.
clean_data_keeps_duplicates(data) == SelectSeq(data, is_relevant)

\* data_cleaner.py:8-31
clean_data(data) == SelectSeq(Dedupe(data, {}), is_relevant)

\* categorizer.py:36-44: the bucket an item is appended to
BucketOf(item) == IF item.category \in CategoryNames THEN item.category ELSE "news"

\* categorizer.py:18-53.  DEFAULT_CATEGORIES.copy() is a shallow copy: the
\* bucket lists are those of the module-level dict, so the items are appended
\* to `buckets`, the lists as earlier calls left them.
RECURSIVE categorize_data(_, _)
categorize_data(data_items, buckets) ==
    IF data_items = <<>> THEN buckets
    ELSE LET item == Head(data_items)
             c == BucketOf(item)
         IN  categorize_data(Tail(data_items),
                             [buckets EXCEPT ![c] = Append(@, item)])

\* message_formatter.py:200-254: the pair appended for one item.  The text is
\* kept as the title it is rendered from.
MessageOf(item) == [text |-> item.title, url |-> item.url]

\* A variant of FormatItems without the test of line 198 on posted_urls.
RECURSIVE FormatItems_keeps_posted(_, _)
FormatItems_keeps_posted(items, posted_urls) ==
    IF items = <<>> THEN <<>>
    ELSE LET item == Head(items)
         IN  IF item.url = ""
             THEN FormatItems_keeps_posted(Tail(items), posted_urls)
             ELSE <<MessageOf(item)>> \o FormatItems_keeps_posted(Tail(items), posted_urls)

\* message_formatter.py:196-199, 254: the messages of one bucket
RECURSIVE FormatItems(_, _)
FormatItems(items, posted_urls) ==
    IF items = <<>> THEN <<>>
    ELSE LET item == Head(items)
         IN  IF item.url = "" \/ item.url \in posted_urls
             THEN FormatItems(Tail(items), posted_urls)
             ELSE <<MessageOf(item)>> \o FormatItems(Tail(items), posted_urls)

\* message_formatter.py:195: for category, items in data.items()
RECURSIVE FormatFrom(_, _, _)
FormatFrom(k, data, posted_urls) ==
    IF k > Len(CategoryOrder) THEN <<>>
    ELSE FormatItems(data[CategoryOrder[k]], posted_urls)
         \o FormatFrom(k + 1, data, posted_urls)

\* message_formatter.py:192-255, given the set load_posted_urls returned
format_message(data, posted_urls) == FormatFrom(1, data, posted_urls)

\* main.py:17-44: source name -> number of fetched items (0 is "No data")
update_source_statistics(data_items) ==
    [s \in SourceNames |->
        Cardinality({i \in 1..Len(data_items) : data_items[i].source = s})]

(***************************************************************************)
(* The channel and TelegramBot.send_message.                               *)
(***************************************************************************)
\* What bot.send_message does with one request: it accepts the message, or
\* raises a TelegramError whose text holds "retry after" (retry is the number
\* that follows, NoRetry when none follows), or raises another TelegramError,
\* or raises some other Exception.
NoRetry == -1

Outcome(kind, retry) == [kind |-> kind, retry |-> retry]
Accepts == Outcome("ok", NoRetry)
RateLimits == {Outcome("rate_limit", 5), Outcome("rate_limit", NoRetry)}
Failures == {Outcome("error", NoRetry), Outcome("unexpected", NoRetry)}

\* What the history keeps of an answer: the two kinds of failure, which
\* send_message treats alike, are kept as "failed".
Answer(o) == IF o.kind \in {"error", "unexpected"} THEN Outcome("failed", NoRetry) ELSE o

\* A variant of extract_retry_time without the default of line 51.
extract_retry_time_no_default(o) == IF o.retry # NoRetry THEN o.retry ELSE 0

\* telegram_bot.py:46-51
extract_retry_time(o) == IF o.retry # NoRetry THEN o.retry ELSE DEFAULT_RETRY

\* telegram_bot.py:39: asyncio.sleep(retry_time + 1)
RetrySleep(o) == extract_retry_time(o) + 1

\* telegram_bot.py:22-44: how send_message ends for its caller once the
\* request got outcome o: "retry" (sleep, then call itself again), "returned"
\* (falls off the end or is done), or "raised".  Lines 42 and 44 log the error
\* and let the method return normally.
send_message_result(o) ==
    CASE o.kind = "ok" -> "returned"
      [] o.kind = "rate_limit" -> "retry"
      [] o.kind = "error" -> "returned"
      [] o.kind = "unexpected" -> "returned"

(***************************************************************************)
(* State.                                                                  *)
(***************************************************************************)
VARIABLES
    now,                \* time.time(), in days
    storage_ok,         \* whether reads and writes of the two files succeed
    posted_urls_file,   \* POSTED_URLS_FILE, the ledger
    status,             \* StatusMonitor.status
    status_file,        \* STATUS_FILE, as last saved
    temp_errors,        \* StatusMonitor.temp_errors
    DEFAULT_CATEGORIES, \* the module-level dict of categorizer.py
    pc,                 \* where data_collection_pipeline is
    run_id, raw_data, source_statuses, cleaned_data, messages,
    post_count, success, \* locals of data_collection_pipeline
    posted_urls,        \* the local of format_message: what load_posted_urls returned
    idx,                \* position of the for loop of send_messages_to_telegram
    sent_count,         \* its local post_count
    ctx,                \* who is inside send_message: "delivery" or "report"
    sleep_for,          \* seconds of the sleep in progress
    \* history, read by the properties only
    runs,               \* runs started
    accepted,           \* positions of the messages the channel accepted
    failed,             \* positions of the messages the channel refused
    last_request,       \* the last request answered: [i, o, slept]
    slept,              \* seconds slept since the last request
    save_calls,         \* positions save_posted_url was called for
    rl_count,           \* rate-limit answers in this run
    monitor_calls,      \* record_run_start / record_run_complete of this run
    raised,             \* a stage of this run raised
    health,             \* the health the status report of this run showed
    fetches             \* what each source answered in fetch_data, where it
                        \* is modelled source by source

vars == <<now, storage_ok, posted_urls_file, status, status_file, temp_errors,
          DEFAULT_CATEGORIES, pc, run_id, raw_data, source_statuses,
          cleaned_data, messages, post_count, success, posted_urls, idx,
          sent_count, ctx,
          sleep_for, runs, accepted, failed, last_request, slept,
          save_calls, rl_count, monitor_calls, raised, health,
                   fetches>>

envVars == <<now, storage_ok>>
ledgerVars == <<posted_urls_file>>
monitorVars == <<status, status_file, temp_errors>>
localVars == <<run_id, raw_data, source_statuses, cleaned_data, messages,
               post_count, success, posted_urls>>
sendVars == <<idx, sent_count, ctx, sleep_for>>
historyVars == <<accepted, failed, last_request, slept, save_calls, rl_count,
                 monitor_calls, raised, health,
                   fetches>>

NoStatuses == [s \in {} |-> 0]

\* No request answered yet in this run.
NoRequest == [i |-> 0, o |-> Outcome("none", NoRetry), slept |-> 0]

\* status_monitor.py:17-28
FreshStatus ==
    [last_run_timestamp |-> 0, total_runs |-> 0, successful_runs |-> 0,
     failed_runs |-> 0, errors |-> <<>>, posts_count |-> 0,
     sources_status |-> NoStatuses]

\* status_monitor.py:30-37: the status file 47 earlier runs left, so that the
\* first run of a behaviour is the 48th
LoadedStatus ==
    [FreshStatus EXCEPT !.last_run_timestamp = Epoch - 1, !.total_runs = 47,
                        !.successful_runs = 45, !.failed_runs = 2,
                        !.posts_count = 60]

\* No status report has been built in this run.
NoHealth == "none"

\* No source has been asked.
NoFetches == [s \in {} |-> "none"]

\* A variant of get_health_status that counts a rate of exactly 30% as high
get_health_status_at_threshold(st, clock) ==
    IF st.last_run_timestamp = 0 THEN "Unknown"
    ELSE IF clock - st.last_run_timestamp > EXPECTED_INTERVAL * 2
         THEN "Unhealthy - Last run too long ago"
    ELSE IF st.total_runs > 0 /\ st.failed_runs * 10 >= st.total_runs * 3
         THEN "Unhealthy - High error rate"
    ELSE "Healthy"

\* status_monitor.py:92-115.  A last_run_timestamp of None (or 0) is falsy;
\* failed_runs / total_runs > 0.3 is compared in whole numbers.
get_health_status(st, clock) ==
    IF st.last_run_timestamp = 0 THEN "Unknown"
    ELSE IF clock - st.last_run_timestamp > EXPECTED_INTERVAL * 2
         THEN "Unhealthy - Last run too long ago"
    ELSE IF st.total_runs > 0 /\ st.failed_runs * 10 > st.total_runs * 3
         THEN "Unhealthy - High error rate"
    ELSE "Healthy"

\* categorizer.py:10-16
EmptyCategories == [c \in CategoryNames |-> <<>>]

\* Ledger files the process may find at start.
InitLedgers ==
    { <<>>,
      <<Line("D", BadTs), Line("E", 0)>>,
      <<Line("B", NoPipe), Line("C", Epoch - URL_RETENTION_DAYS), Line("D", Epoch - 1)>> }

\* Days between the start of two runs in the model (the scheduler's interval
\* is minutes: most runs start on the day of the run before).
DayGaps == {0, 1}

Init ==
    /\ now = Epoch
    /\ storage_ok = TRUE
    /\ posted_urls_file \in InitLedgers
    /\ status = LoadedStatus
    /\ status_file = status
    /\ temp_errors = <<>>
    /\ DEFAULT_CATEGORIES = EmptyCategories
    /\ pc = "idle"
    /\ run_id = 0
    /\ raw_data = <<>>
    /\ source_statuses = NoStatuses
    /\ cleaned_data = <<>>
    /\ messages = <<>>
    /\ post_count = 0
    /\ success = TRUE
    /\ posted_urls = {}
    /\ idx = 0
    /\ sent_count = 0
    /\ ctx = "none"
    /\ sleep_for = 0
    /\ runs = 0
    /\ accepted = {}
    /\ failed = {}
    /\ last_request = NoRequest
    /\ slept = 0
    /\ save_calls = {}
    /\ rl_count = 0
    /\ monitor_calls = <<>>
    /\ raised = FALSE
    /\ health = NoHealth
    /\ fetches = NoFetches

(***************************************************************************)
(* StatusMonitor.                                                          *)
(***************************************************************************)
\* status_monitor.py:39-45: the file after save_status; a failed write is
\* logged and leaves it as it was.
save_status(st, file, writeOk) == IF writeOk THEN st ELSE file

\* A variant of record_run_start that stamps the time and does not count
\* the run
record_run_start_uncounted(st, clock) ==
    [st EXCEPT !.last_run_timestamp = clock]

\* status_monitor.py:47-56, the fields of self.status after record_run_start
record_run_start(st, clock) ==
    [st EXCEPT !.last_run_timestamp = clock, !.total_runs = @ + 1]

\* status_monitor.py:80-90, the entry record_error appends
ErrorEntry(source_name, error_msg, clock) ==
    [timestamp |-> clock, source |-> source_name, error |-> error_msg]

record_error(buffer, source_name, error_msg, clock) ==
    Append(buffer, ErrorEntry(source_name, error_msg, clock))

\* A variant of record_run_complete that counts every run as successful
record_run_complete_counts_success(st, ok, posts, statuses, buffer) ==
    LET counted == [st EXCEPT !.successful_runs = @ + 1]
        posted == [counted EXCEPT !.posts_count = @ + posts]
        sourced == IF DOMAIN statuses # {}
                   THEN [posted EXCEPT !.sources_status = statuses]
                   ELSE posted
        merged == buffer \o sourced.errors
    IN  IF buffer # <<>>
        THEN [sourced EXCEPT !.errors = SubSeq(merged, 1, Min2(Len(merged), MAX_ERRORS))]
        ELSE sourced

\* status_monitor.py:58-76, self.status after record_run_complete
record_run_complete(st, ok, posts, statuses, buffer) ==
    LET counted == IF ok THEN [st EXCEPT !.successful_runs = @ + 1]
                         ELSE [st EXCEPT !.failed_runs = @ + 1]
        posted == [counted EXCEPT !.posts_count = @ + posts]
        sourced == IF DOMAIN statuses # {}
                   THEN [posted EXCEPT !.sources_status = statuses]
                   ELSE posted
        merged == buffer \o sourced.errors
    IN  IF buffer # <<>>
        THEN [sourced EXCEPT !.errors = SubSeq(merged, 1, Min2(Len(merged), MAX_ERRORS))]
        ELSE sourced

(***************************************************************************)
(* data_collection_pipeline, stage by stage.                               *)
(***************************************************************************)
\* main.py:161-167.  The run finds the clock and the storage as the time
\* since the run before left them: for the whole run, the files can be read
\* and written, or every read and write raises (and the code logs it).
StartRun ==
    /\ pc = "idle"
    /\ runs < MaxRuns
    /\ \E gap \in DayGaps : now' = now + gap
    /\ storage_ok' \in BOOLEAN
    /\ status' = record_run_start(status, now')
    /\ status_file' = save_status(status', status_file, storage_ok')
    /\ temp_errors' = <<>>
    /\ run_id' = status'.total_runs
    /\ source_statuses' = NoStatuses
    /\ post_count' = 0
    /\ success' = TRUE
    /\ posted_urls' = {}
    /\ raw_data' = <<>>
    /\ cleaned_data' = <<>>
    /\ messages' = <<>>
    /\ pc' = "fetch"
    /\ runs' = runs + 1
    /\ accepted' = {}
    /\ failed' = {}
    /\ last_request' = NoRequest
    /\ slept' = 0
    /\ save_calls' = {}
    /\ rl_count' = 0
    /\ monitor_calls' = <<"start">>
    /\ raised' = FALSE
    /\ health' = NoHealth
    /\ fetches' = NoFetches
    /\ UNCHANGED <<ledgerVars, DEFAULT_CATEGORIES, sendVars>>

\* main.py:173-177, the sources returning one of `outputs`
FetchFrom(outputs) ==
    /\ pc = "fetch"
    /\ \E data \in outputs :
          /\ raw_data' = data
          /\ source_statuses' = update_source_statistics(data)
    /\ pc' = "clean"
    /\ UNCHANGED <<envVars, ledgerVars, monitorVars, DEFAULT_CATEGORIES, run_id,
                   cleaned_data, messages, post_count, success, posted_urls,
                   sendVars, runs, historyVars>>

Fetch == FetchFrom(FetchOutputs)

\* main.py:180
Clean ==
    /\ pc = "clean"
    /\ cleaned_data' = clean_data(raw_data)
    /\ pc' = "categorize"
    /\ UNCHANGED <<envVars, ledgerVars, monitorVars, DEFAULT_CATEGORIES, run_id,
                   raw_data, source_statuses, messages, post_count, success,
                   posted_urls, sendVars, runs, historyVars>>

\* main.py:183; the dict returned holds the module's own lists
Categorize ==
    /\ pc = "categorize"
    /\ DEFAULT_CATEGORIES' = categorize_data(cleaned_data, DEFAULT_CATEGORIES)
    /\ pc' = "format"
    /\ UNCHANGED <<envVars, ledgerVars, monitorVars, localVars, sendVars, runs,
                   historyVars>>

\* main.py:187-201: format_message, then the branch on `if messages`
Format ==
    /\ pc = "format"
    /\ LET loaded == load_posted_urls(posted_urls_file, now, storage_ok)
       IN  /\ posted_urls' = loaded.urls
           /\ messages' = format_message(DEFAULT_CATEGORIES, posted_urls')
           /\ posted_urls_file' = loaded.file
    /\ IF messages' # <<>>
       THEN /\ pc' = "send"
            /\ ctx' = "delivery"
            /\ idx' = 1
            /\ sent_count' = 0
       ELSE /\ pc' = "report"
            /\ UNCHANGED <<ctx, idx, sent_count>>
    /\ UNCHANGED <<envVars, monitorVars, DEFAULT_CATEGORIES, run_id, raw_data,
                   source_statuses, cleaned_data, post_count, success,
                   sleep_for, runs, historyVars>>

\* A variant of StageRaises without the except clause: the exception leaves
\* data_collection_pipeline and line 212 is not reached.
StageRaises_escapes ==
    /\ pc \in {"fetch", "clean", "categorize", "format"}
    /\ raised' = TRUE
    /\ pc' = "idle"
    /\ UNCHANGED <<envVars, ledgerVars, monitorVars, DEFAULT_CATEGORIES,
                   localVars, sendVars, runs, accepted, failed, last_request,
                   slept, save_calls, rl_count, monitor_calls, health, fetches>>

\* main.py:206-209: a stage inside the try raises an Exception
StageRaises ==
    /\ pc \in {"fetch", "clean", "categorize", "format"}
    /\ temp_errors' = record_error(temp_errors, "pipeline", "data_collection_pipeline", now)
    /\ success' = FALSE
    /\ raised' = TRUE
    /\ pc' = "complete"
    /\ UNCHANGED <<envVars, ledgerVars, status, status_file, DEFAULT_CATEGORIES,
                   run_id, raw_data, source_statuses, cleaned_data, messages,
                   post_count, posted_urls, sendVars, runs, accepted, failed, last_request,
                   slept, save_calls, rl_count, monitor_calls, health, fetches>>

(***************************************************************************)
(* send_messages_to_telegram and TelegramBot.send_message.                 *)
(***************************************************************************)
\* A variant of LoopNext that leaves the loop at the first refused message.
LoopNext_stops_at_failure ==
    IF idx < Len(messages) /\ failed' = {}
    THEN /\ idx' = idx + 1
         /\ pc' = "send"
         /\ UNCHANGED <<post_count, success>>
    ELSE /\ idx' = idx
         /\ pc' = "report"
         /\ post_count' = sent_count'
         /\ success' = (sent_count' = Len(messages))

\* main.py:62, 83 and 198: the for loop takes the next pair, or the function
\* returns post_count and the pipeline sets success.
LoopNext ==
    IF idx < Len(messages)
    THEN /\ idx' = idx + 1
         /\ pc' = "send"
         /\ UNCHANGED <<post_count, success>>
    ELSE /\ idx' = idx
         /\ pc' = "report"
         /\ post_count' = sent_count'
         /\ success' = (sent_count' = Len(messages))

\* main.py:66-74: send_message came back without raising
SendReturned ==
    /\ posted_urls_file' =
          save_posted_url(posted_urls_file, messages[idx].url, now, storage_ok)
    /\ save_calls' = save_calls \cup {idx}
    /\ sent_count' = sent_count + 1
    /\ IF sent_count' < Len(messages)
       THEN /\ pc' = "delay"
            /\ sleep_for' = MESSAGE_DELAY
            /\ UNCHANGED <<idx, post_count, success>>
       ELSE /\ LoopNext
            /\ UNCHANGED sleep_for
    /\ UNCHANGED temp_errors

\* main.py:76-81: send_message raised
SendRaised ==
    /\ temp_errors' = record_error(temp_errors, "telegram", "telegram_message_send", now)
    /\ sent_count' = sent_count
    /\ LoopNext
    /\ UNCHANGED <<posted_urls_file, save_calls, sleep_for>>

\* The request of send_message (telegram_bot.py:32) is answered with o, and
\* the coroutine runs on to its next await.  In a status report
\* (main.py:97-102) nothing follows the send.
RequestAnswered(o) ==
    /\ pc = "send"
    /\ last_request' = [i |-> IF ctx = "delivery" THEN idx ELSE 0,
                         o |-> Answer(o), slept |-> slept]
    /\ accepted' = IF ctx = "delivery" /\ o.kind = "ok"
                   THEN accepted \cup {idx} ELSE accepted
    /\ failed' = IF ctx = "delivery" /\ o \in Failures
                 THEN failed \cup {idx} ELSE failed
    /\ slept' = 0
    /\ LET result == send_message_result(o)
       IN  IF result = "retry"
           THEN /\ pc' = "rl_sleep"
                /\ sleep_for' = RetrySleep(o)
                /\ UNCHANGED <<posted_urls_file, save_calls,
                               sent_count, idx, post_count, success, temp_errors>>
           ELSE IF ctx = "report"
           THEN /\ pc' = "complete"
                /\ UNCHANGED <<posted_urls_file, save_calls,
                               sent_count, idx, post_count, success, temp_errors,
                               sleep_for>>
           ELSE IF result = "raised" THEN SendRaised
           ELSE SendReturned
    /\ UNCHANGED <<envVars, status, status_file, DEFAULT_CATEGORIES, run_id,
                   raw_data, source_statuses, cleaned_data, messages,
                   posted_urls, ctx, runs, monitor_calls, raised, health,
                   fetches>>

\* The channel accepts the message.
ChannelAccepts ==
    /\ RequestAnswered(Accepts)
    /\ UNCHANGED rl_count

\* The channel refuses the message for another reason than a rate limit.
ChannelFails ==
    /\ \E o \in Failures : RequestAnswered(o)
    /\ UNCHANGED rl_count

\* The channel signals a rate limit.  With `budgeted`, at most MaxRateLimits
\* times in a run; rl_count stops counting at MaxRateLimits.
ChannelRateLimits(budgeted) ==
    /\ budgeted => rl_count < MaxRateLimits
    /\ rl_count' = Min2(rl_count + 1, MaxRateLimits)
    /\ \E o \in RateLimits : RequestAnswered(o)

\* telegram_bot.py:39-41: the sleep is over, send_message calls itself
RetryAfterSleep ==
    /\ pc = "rl_sleep"
    /\ slept' = slept + sleep_for
    /\ pc' = "send"
    /\ UNCHANGED <<envVars, ledgerVars, monitorVars, DEFAULT_CATEGORIES, localVars,
                   sendVars, runs, accepted, failed, last_request, save_calls,
                   rl_count, monitor_calls, raised, health,
                   fetches>>

\* main.py:74: the delay between two messages is over
DelayElapsed ==
    /\ pc = "delay"
    /\ slept' = slept + sleep_for
    /\ sent_count' = sent_count
    /\ UNCHANGED <<envVars, ledgerVars, monitorVars, DEFAULT_CATEGORIES, run_id,
                   raw_data, source_statuses, cleaned_data, messages,
                   posted_urls, ctx, sleep_for, runs, accepted, failed, last_request,
                   save_calls, rl_count, monitor_calls, raised, health,
                   fetches>>
    /\ LoopNext

\* main.py:86-102, 204: maybe_send_status_report.  send_status_report builds
\* the report (status_monitor.py:126-130) in the run that has just stamped
\* last_run_timestamp.
Report ==
    /\ pc = "report"
    /\ IF run_id % REPORT_EVERY = 0
       THEN /\ health' = get_health_status(status, now)
            /\ pc' = "send"
            /\ ctx' = "report"
       ELSE /\ health' = health
            /\ pc' = "complete"
            /\ ctx' = ctx
    /\ UNCHANGED <<envVars, ledgerVars, monitorVars, DEFAULT_CATEGORIES, localVars,
                   idx, sent_count, sleep_for, runs, accepted, failed,
                   last_request, slept, save_calls, rl_count, monitor_calls,
                   raised, fetches>>

\* main.py:212: record_run_complete; the coroutine ends and its locals go
Complete ==
    /\ pc = "complete"
    /\ status' = record_run_complete(status, success, post_count,
                                     source_statuses, temp_errors)
    /\ status_file' = save_status(status', status_file, storage_ok)
    /\ monitor_calls' = Append(monitor_calls, "complete")
    /\ pc' = "idle"
    /\ run_id' = 0
    /\ raw_data' = <<>>
    /\ source_statuses' = NoStatuses
    /\ cleaned_data' = <<>>
    /\ messages' = <<>>
    /\ post_count' = 0
    /\ success' = TRUE
    /\ posted_urls' = {}
    /\ idx' = 0
    /\ sent_count' = 0
    /\ ctx' = "none"
    /\ sleep_for' = 0
    /\ accepted' = {}
    /\ failed' = {}
    /\ last_request' = NoRequest
    /\ slept' = 0
    /\ save_calls' = {}
    /\ rl_count' = 0
    /\ raised' = FALSE
    /\ health' = NoHealth
    /\ fetches' = NoFetches
    /\ UNCHANGED <<envVars, ledgerVars, temp_errors, DEFAULT_CATEGORIES, runs>>

Steps ==
    \/ StartRun
    \/ Fetch
    \/ Clean
    \/ Categorize
    \/ Format
    \/ StageRaises
    \/ ChannelAccepts
    \/ ChannelFails
    \/ RetryAfterSleep
    \/ DelayElapsed
    \/ Report
    \/ Complete

Next == Steps \/ ChannelRateLimits(TRUE)

Spec == Init /\ [][Next]_vars

\* The same program with a channel that may signal a rate limit any number
\* of times.  Every step of the run is a step of the one coroutine the event
\* loop drives, so a step that can be taken is taken.
NextUnbounded == Steps \/ ChannelRateLimits(FALSE)

LiveSpec == Init /\ [][NextUnbounded]_vars /\ WF_vars(NextUnbounded)

(***************************************************************************)
(* format_message on its own: the categorized items and the ledger file    *)
(* are drawn from bounded sets, in the 48th run of the process.            *)
(***************************************************************************)
SeqsUpTo(S, n) == UNION {[1..k -> S] : k \in 0..n}

FormatItemLists == SeqsUpTo({ItA, ItB, ItB2, ItC, ItNoUrl}, MaxItems)

FormatLedgers ==
    SeqsUpTo({Line("A", Epoch - 1), Line("B", NoPipe), Line("C", BadTs),
              Line("B", Epoch - URL_RETENTION_DAYS), Line("A", 0)}, MaxLines)

FormatInit ==
    /\ now = Epoch
    /\ storage_ok \in BOOLEAN
    /\ posted_urls_file \in FormatLedgers
    /\ status = record_run_start(LoadedStatus, now)
    /\ status_file = save_status(status, LoadedStatus, storage_ok)
    /\ temp_errors = <<>>
    /\ \E items \in FormatItemLists :
          DEFAULT_CATEGORIES = categorize_data(items, EmptyCategories)
    /\ pc = "format"
    /\ run_id = status.total_runs
    /\ raw_data = <<>>
    /\ source_statuses = NoStatuses
    /\ cleaned_data = <<>>
    /\ messages = <<>>
    /\ post_count = 0
    /\ success = TRUE
    /\ posted_urls = {}
    /\ idx = 0
    /\ sent_count = 0
    /\ ctx = "none"
    /\ sleep_for = 0
    /\ runs = 1
    /\ accepted = {}
    /\ failed = {}
    /\ last_request = NoRequest
    /\ slept = 0
    /\ save_calls = {}
    /\ rl_count = 0
    /\ monitor_calls = <<"start">>
    /\ raised = FALSE
    /\ health = NoHealth
    /\ fetches = NoFetches

FormatSpec == FormatInit /\ [][Format]_vars

(***************************************************************************)
(* The process killed while it rewrites one of its two files, and started  *)
(* again.  Both files are opened with mode 'w', which empties the file,    *)
(* and written piece by piece.                                             *)
(***************************************************************************)
\* STATUS_FILE cut short: empty, or the beginning of a JSON object
TornStatus == [torn |-> TRUE]

\* status_monitor.py:17-37: StatusMonitor() at process start.  json.load
\* raises on a file cut short; the error is logged and the defaults stay.
load_status(file) == IF file = TornStatus THEN FreshStatus ELSE file

\* The beginnings of a file: the lines written so far when the process dies
Beginnings(file) == {SubSeq(file, 1, n) : n \in 0..Len(file)}

\* The memory of the process is gone
ProcessGone ==
    /\ pc' = "down"
    /\ temp_errors' = <<>>
    /\ run_id' = 0
    /\ raw_data' = <<>>
    /\ source_statuses' = NoStatuses
    /\ cleaned_data' = <<>>
    /\ messages' = <<>>
    /\ post_count' = 0
    /\ success' = TRUE
    /\ posted_urls' = {}
    /\ idx' = 0
    /\ sent_count' = 0
    /\ ctx' = "none"
    /\ sleep_for' = 0
    /\ accepted' = {}
    /\ failed' = {}
    /\ last_request' = NoRequest
    /\ slept' = 0
    /\ save_calls' = {}
    /\ rl_count' = 0
    /\ monitor_calls' = <<>>
    /\ raised' = FALSE
    /\ health' = NoHealth
    /\ fetches' = NoFetches

\* status_monitor.py:42-43: the process dies inside save_status, called by
\* record_run_start (line 55) or by record_run_complete (line 78).  status'
\* is the status that was being written.
CrashInSaveStatus ==
    /\ storage_ok
    /\ \/ /\ pc = "idle"
          /\ runs < MaxRuns
          /\ status' = record_run_start(status, now)
          /\ runs' = runs + 1
       \/ /\ pc = "complete"
          /\ status' = record_run_complete(status, success, post_count,
                                           source_statuses, temp_errors)
          /\ runs' = runs
    /\ status_file' \in {TornStatus, status'}
    /\ ProcessGone
    /\ UNCHANGED <<envVars, ledgerVars, DEFAULT_CATEGORIES>>

\* message_formatter.py:102-104: the process dies inside the rewrite of
\* _purge_old_urls, called by load_posted_urls in format_message.
CrashInPurge ==
    /\ pc = "format"
    /\ storage_ok
    /\ PurgeNeeded(posted_urls_file, now)
    /\ posted_urls_file' \in Beginnings(purge_old_urls(posted_urls_file))
    /\ ProcessGone
    /\ UNCHANGED <<envVars, status, status_file, DEFAULT_CATEGORIES, runs>>

\* The process is started again: the modules are loaded anew.
Restart ==
    /\ pc = "down"
    /\ status' = load_status(status_file)
    /\ DEFAULT_CATEGORIES' = EmptyCategories
    /\ pc' = "idle"
    /\ UNCHANGED <<envVars, ledgerVars, status_file, temp_errors, localVars,
                   sendVars, runs, historyVars>>

CrashNext == Next \/ CrashInSaveStatus \/ CrashInPurge \/ Restart

CrashSpec == Init /\ [][CrashNext]_vars

(***************************************************************************)
(* The end-to-end scenario: an empty ledger, and in every run source s1    *)
(* returns the items with URLs A and B, source s2 the items with URLs B    *)
(* and C, the two items of URL B having the same identifier.               *)
(***************************************************************************)
ScenarioOutput == <<ItA, ItB, ItB2, ItC>>

ScenarioInit == Init /\ posted_urls_file = <<>>

ScenarioFetch == FetchFrom({ScenarioOutput})

ScenarioNext ==
    \/ StartRun
    \/ ScenarioFetch
    \/ Clean
    \/ Categorize
    \/ Format
    \/ StageRaises
    \/ ChannelAccepts
    \/ ChannelFails
    \/ ChannelRateLimits(TRUE)
    \/ RetryAfterSleep
    \/ DelayElapsed
    \/ Report
    \/ Complete

ScenarioSpec == ScenarioInit /\ [][ScenarioNext]_vars

(***************************************************************************)
(* The ledger on its own: save_posted_url and load_posted_urls called in   *)
(* any order while time passes, over months.  pc is "ledger" after a save  *)
(* or a change of the clock, "loaded" or "reloaded" after a load.          *)
(***************************************************************************)
LedgerUrls == {"A", "B", "C"}

\* The clock readings: the start, 45 days later, the last day of the
\* retention window of an entry of the start, and the day after.
LedgerTimes ==
    {Epoch, Epoch + 45, Epoch + URL_RETENTION_DAYS, Epoch + URL_RETENTION_DAYS + 1}

LedgerFiles ==
    { <<>>,
      <<Line("A", NoPipe)>>,
      <<Line("A", BadTs), Line("B", NoPipe), Line("C", NoPipe)>>,
      <<Line("A", NoPipe), Line("C", Epoch - 2), Line("B", Epoch - 1)>> }

LedgerInit ==
    /\ now = Epoch
    /\ storage_ok = TRUE
    /\ posted_urls_file \in LedgerFiles
    /\ status = LoadedStatus
    /\ status_file = status
    /\ temp_errors = <<>>
    /\ DEFAULT_CATEGORIES = EmptyCategories
    /\ pc = "ledger"
    /\ run_id = 0
    /\ raw_data = <<>>
    /\ source_statuses = NoStatuses
    /\ cleaned_data = <<>>
    /\ messages = <<>>
    /\ post_count = 0
    /\ success = TRUE
    /\ posted_urls = {}
    /\ idx = 0
    /\ sent_count = 0
    /\ ctx = "none"
    /\ sleep_for = 0
    /\ runs = 0
    /\ accepted = {}
    /\ failed = {}
    /\ last_request = NoRequest
    /\ slept = 0
    /\ save_calls = {}
    /\ rl_count = 0
    /\ monitor_calls = <<>>
    /\ raised = FALSE
    /\ health = NoHealth
    /\ fetches = NoFetches

LedgerPositions == {"ledger", "loaded", "reloaded"}
pipelineVars ==
    <<monitorVars, DEFAULT_CATEGORIES, run_id, raw_data, source_statuses,
      cleaned_data, messages, post_count, success, sendVars, runs, historyVars>>

\* message_formatter.py:59-66: save_posted_url(u)
LedgerSave ==
    /\ pc \in LedgerPositions
    /\ Len(posted_urls_file) < MaxLedger
    /\ \E u \in LedgerUrls :
          posted_urls_file' = save_posted_url(posted_urls_file, u, now, storage_ok)
    /\ pc' = "ledger"
    /\ UNCHANGED <<envVars, posted_urls, pipelineVars>>

\* message_formatter.py:24-57: posted_urls = load_posted_urls()
LedgerLoad ==
    /\ pc \in LedgerPositions
    /\ LET loaded == load_posted_urls(posted_urls_file, now, storage_ok)
       IN  /\ posted_urls' = loaded.urls
           /\ posted_urls_file' = loaded.file
    /\ pc' = IF pc = "loaded" THEN "reloaded" ELSE "loaded"
    /\ UNCHANGED <<envVars, pipelineVars>>

\* Time passes between two calls, and the storage fails or works again.
LedgerTick ==
    /\ pc \in LedgerPositions
    /\ \E t \in LedgerTimes : t >= now /\ now' = t
    /\ storage_ok' \in BOOLEAN
    /\ pc' = "ledger"
    /\ UNCHANGED <<ledgerVars, posted_urls, pipelineVars>>

LedgerNext == LedgerSave \/ LedgerLoad \/ LedgerTick

LedgerSpec == LedgerInit /\ [][LedgerNext]_vars

(***************************************************************************)
(* Properties of the ledger.                                               *)
(***************************************************************************)
\* A step in which load_posted_urls runs
LoadStep == pc \in LedgerPositions /\ pc' \in {"loaded", "reloaded"}
\* Lines of the shape save_posted_url writes: a URL and a timestamp that parses
Timed(file) == {k \in 1..Len(file) : file[k].ts >= 0}
\* Lines without a timestamp that parses
Untimed(file) == {k \in 1..Len(file) : file[k].ts < 0}
\* Days since the line was written
Age(e) == now - e.ts
\* Some line of the file keeps url live: one without timestamp whose text is
\* url, or one for url that is at most URL_RETENTION_DAYS old.
KeptLive(file, url) ==
    \E j \in 1..Len(file) :
        \/ file[j].ts < 0 /\ WholeLine(file[j]) = url
        \/ file[j].ts >= 0 /\ file[j].url = url /\ Age(file[j]) <= URL_RETENTION_DAYS

\* C11 as stated: a URL recorded with save_posted_url is returned by every
\* load for as long as less than the retention window has passed since the
\* record, so that its entry is still there for the loads to come, and is
\* not returned once the window has passed (the storage being readable).
C11_RoundTripWithExpiry ==
    [][(LoadStep /\ storage_ok) =>
         \A k \in Timed(posted_urls_file) :
            LET e == posted_urls_file[k]
            IN  /\ Age(e) < URL_RETENTION_DAYS =>
                      /\ e.url \in posted_urls'
                      /\ \E j \in 1..Len(posted_urls_file') : posted_urls_file'[j] = e
                /\ Age(e) > URL_RETENTION_DAYS => e.url \notin posted_urls']_vars

\* C11, amended: when the storage can be read, a load returns the URL of
\* every entry that is at most URL_RETENTION_DAYS old; the entries stay in
\* storage unless the load read more than MAX_STORED_URLS URLs and purged;
\* the URL of an older entry is returned only if another line keeps it live.
C11_RoundTripUnlessPurged ==
    [][(LoadStep /\ storage_ok) =>
         \A k \in Timed(posted_urls_file) :
            LET e == posted_urls_file[k]
            IN  /\ Age(e) <= URL_RETENTION_DAYS => e.url \in posted_urls'
                /\ Cardinality(posted_urls') <= MAX_STORED_URLS
                      => posted_urls_file' = posted_urls_file
                /\ Age(e) > URL_RETENTION_DAYS =>
                      (e.url \in posted_urls' <=> KeptLive(posted_urls_file, e.url))]_vars

\* A was saved on the first day and is loaded on the last day of its window.
C11_Witness ==
    /\ pc = "loaded"
    /\ storage_ok
    /\ now = Epoch + URL_RETENTION_DAYS
    /\ posted_urls_file = <<Line("A", Epoch)>>
    /\ posted_urls = {"A"}

\* The text load_posted_urls and _purge_old_urls take as the URL of a line
TextOf(e) == IF e.ts >= 0 THEN e.url ELSE WholeLine(e)

\* C14: an entry stored without a timestamp that parses is always live: every
\* load of a readable storage returns it, and when the load purged and kept
\* the entry in storage, the entry is still live for the next load.
C14_UntimedAlwaysLive ==
    [][(LoadStep /\ storage_ok) =>
         \A k \in Untimed(posted_urls_file) :
            LET text == WholeLine(posted_urls_file[k])
            IN  /\ text \in posted_urls'
                /\ (\E j \in 1..Len(posted_urls_file') :
                        TextOf(posted_urls_file'[j]) = text)
                      => text \in ReadPostedUrls(posted_urls_file', now)]_vars

\* The entry _purge_old_urls makes of a line: timestamp 0 when none parses
EntryOf(e) == Line(TextOf(e), IF e.ts >= 0 THEN e.ts ELSE 0)
\* How many lines of the file make the entry v
Copies(file, v) == Cardinality({k \in 1..Len(file) : EntryOf(file[k]) = v})
EntriesOf(file) == {EntryOf(file[k]) : k \in 1..Len(file)}
\* `new` holds Min(MAX_STORED_URLS, total) entries of `old`, and no entry
\* that was left out has a greater timestamp than an entry that was kept.
HoldsNewestOf(old, new) ==
    /\ Len(new) = Min2(MAX_STORED_URLS, Len(old))
    /\ \A j \in 1..Len(new) : new[j].ts >= 0
    /\ \A v \in EntriesOf(new) : Copies(new, v) <= Copies(old, v)
    /\ \A v \in EntriesOf(old) :
          Copies(new, v) < Copies(old, v) => \A j \in 1..Len(new) : new[j].ts >= v.ts

\* C15: load_posted_urls purges whenever the set it read is larger than the
\* cap, and not otherwise; after the purge the storage holds the
\* min(cap, total) entries with the greatest timestamps, a line without a
\* timestamp that parses counting as timestamp 0.
C15_PurgeKeepsNewest ==
    [][LoadStep =>
         IF storage_ok /\ Cardinality(posted_urls') > MAX_STORED_URLS
         THEN HoldsNewestOf(posted_urls_file, posted_urls_file')
         ELSE posted_urls_file' = posted_urls_file]_vars

\* The load read three URLs and purged: the line without timestamp went, the
\* two timed entries are kept, newest first.
C15_Witness ==
    /\ pc = "loaded"
    /\ now = Epoch
    /\ posted_urls = {"A", "B", "C"}
    /\ posted_urls_file = <<Line("B", Epoch - 1), Line("C", Epoch - 2)>>

(***************************************************************************)
(* clean_data on its own: the fetched list is drawn from a bounded set.    *)
(***************************************************************************)
\* Items with and without id, title and URL; the same id with two titles; a
\* title that is the id of another item.
RawItems ==
    { Item("i1", "tA", "A", "news", "s1"),
      Item("i1", "tB", "B", "events", "s2"),
      Item("", "i1", "C", "news", "s1"),
      Item("", "tA", "A", "news", "s2"),
      Item("", "tA", "", "news", "s1"),
      Item("", "", "D", "news", "s1"),
      Item("i2", "", "E", "jobs", "s1") }

CleanInputs == SeqsUpTo(RawItems, MaxRaw)

CleanInit ==
    /\ now = Epoch
    /\ storage_ok \in BOOLEAN
    /\ posted_urls_file = <<>>
    /\ status = record_run_start(LoadedStatus, now)
    /\ status_file = save_status(status, LoadedStatus, storage_ok)
    /\ temp_errors = <<>>
    /\ DEFAULT_CATEGORIES = EmptyCategories
    /\ pc = "clean"
    /\ run_id = status.total_runs
    /\ raw_data \in CleanInputs
    /\ source_statuses = update_source_statistics(raw_data)
    /\ cleaned_data = <<>>
    /\ messages = <<>>
    /\ post_count = 0
    /\ success = TRUE
    /\ posted_urls = {}
    /\ idx = 0
    /\ sent_count = 0
    /\ ctx = "none"
    /\ sleep_for = 0
    /\ runs = 1
    /\ accepted = {}
    /\ failed = {}
    /\ last_request = NoRequest
    /\ slept = 0
    /\ save_calls = {}
    /\ rl_count = 0
    /\ monitor_calls = <<"start">>
    /\ raised = FALSE
    /\ health = NoHealth
    /\ fetches = NoFetches

CleanSpec == CleanInit /\ [][Clean]_vars

(***************************************************************************)
(* Properties of clean_data.                                               *)
(***************************************************************************)
\* clean_data has returned in this run
Cleaned == pc \notin {"idle", "fetch", "clean"} /\ ~raised
\* Positions of the items that are the first of their identifier
FirstOfIdentifier ==
    {i \in 1..Len(raw_data) :
        /\ Identifier(raw_data[i]) # ""
        /\ \A j \in 1..(i - 1) : Identifier(raw_data[j]) # Identifier(raw_data[i])}
\* Those among them that have a title and a URL
FirstAndRelevant ==
    {i \in FirstOfIdentifier : raw_data[i].title # "" /\ raw_data[i].url # ""}
\* cleaned_data is raw_data cut down to the positions of P, in order
IsSelection(P) ==
    /\ Len(cleaned_data) = Cardinality(P)
    /\ \A j \in 1..Len(cleaned_data) :
          \E i \in P : /\ Cardinality({k \in P : k < i}) = j - 1
                       /\ cleaned_data[j] = raw_data[i]

\* C19 as stated: of the items that share an identifier clean_data keeps the
\* first one and only it, the kept items in their input order.
C19_KeepsFirstOfIdentifier == Cleaned => IsSelection(FirstOfIdentifier)

\* C19, amended: clean_data keeps no item but the first of its identifier,
\* and keeps that one exactly when it has a title and a URL; the kept items
\* are in their input order.
C19_KeepsFirstIfRelevant == Cleaned => IsSelection(FirstAndRelevant)

\* Two items share the id i1; the first item of identifier tA has no URL and
\* the group leaves nothing.
C19_Witness ==
    /\ Cleaned
    /\ raw_data = << Item("", "tA", "", "news", "s1"),
                     Item("i1", "tA", "A", "news", "s1"),
                     Item("i1", "tB", "B", "events", "s2") >>
    /\ cleaned_data = << Item("i1", "tA", "A", "news", "s1") >>

\* C20: clean_data is idempotent.
C20_CleanIdempotent == Cleaned => clean_data(cleaned_data) = cleaned_data

\* clean_data dropped a duplicate and an item without URL, and kept two items.
C20_Witness ==
    /\ Cleaned
    /\ Len(raw_data) = 3
    /\ Len(cleaned_data) = 2
    /\ \E i, j \in 1..3 : i # j /\ Identifier(raw_data[i]) = Identifier(raw_data[j])

(***************************************************************************)
(* Properties of categorize_data.                                          *)
(***************************************************************************)
\* categorize_data has returned in this run; the dict it returned holds the
\* lists of DEFAULT_CATEGORIES.
Categorized == pc \notin {"idle", "fetch", "clean", "categorize"} /\ ~raised
\* The items of the input that belong to category c, in input order
InputOf(c) == SelectSeq(cleaned_data, LAMBDA item : BucketOf(item) = c)

\* C18: for every call of categorize_data, also after earlier calls in the
\* process, each bucket returned holds the input items of its category (news
\* for a missing or unknown category) in input order and nothing else, so
\* that the bucket sizes sum to the number of input items.
C18_BucketsPartitionInput ==
    Categorized => \A c \in CategoryNames : DEFAULT_CATEGORIES[c] = InputOf(c)

(***************************************************************************)
(* Properties of format_message.                                           *)
(***************************************************************************)
\* format_message has returned in this run
Formatted == pc \in {"send", "rl_sleep", "delay", "report", "complete"} /\ ~raised
\* The categorized items, category after category
AllItems ==
    DEFAULT_CATEGORIES["news"] \o DEFAULT_CATEGORIES["events"]
    \o DEFAULT_CATEGORIES["jobs"] \o DEFAULT_CATEGORIES["videos/courses"]
    \o DEFAULT_CATEGORIES["facts"]
\* Positions of the items with a URL that is not in the set load_posted_urls returned
Unposted ==
    {i \in 1..Len(AllItems) :
        AllItems[i].url # "" /\ AllItems[i].url \notin posted_urls}

\* C9: format_message returns one pair for each categorized item whose URL is
\* not empty and not in the live set, none for any other item, in the order
\* of the categories and then of the items of a category.
C9_OnePairPerUnpostedItem ==
    Formatted =>
       /\ Len(messages) = Cardinality(Unposted)
       /\ \A j \in 1..Len(messages) :
             \E i \in Unposted :
                /\ Cardinality({k \in Unposted : k < i}) = j - 1
                /\ messages[j].url = AllItems[i].url
                /\ messages[j].text = AllItems[i].title
       /\ \A j \in 1..Len(messages) :
             messages[j].url # "" /\ messages[j].url \notin posted_urls

\* Four items in two categories: one without URL, one posted, two to send.
C9_Witness ==
    /\ Formatted
    /\ DEFAULT_CATEGORIES["news"] = <<ItNoUrl, ItA, ItC>>
    /\ DEFAULT_CATEGORIES["events"] = <<ItB>>
    /\ "A" \in posted_urls
    /\ messages = <<MessageOf(ItC), MessageOf(ItB)>>

\* A step in which format_message is called and returns
FormatStep == pc = "format" /\ pc' \in {"send", "report"}
\* A step in which the delivery saves the URL of the message just sent
SaveStep ==
    /\ pc = "send"
    /\ ctx = "delivery"
    /\ posted_urls_file' = Append(posted_urls_file, Line(messages[idx].url, now))

Positions == 1..Len(messages)
Answered == accepted \cup failed
Delivering == ctx = "delivery" /\ pc \in {"send", "rl_sleep", "delay"}
\* send_messages_to_telegram has returned in this run
Delivered == messages # <<>> /\ (pc \in {"report", "complete"} \/ ctx = "report")
TelegramErrors == {k \in 1..Len(temp_errors) : temp_errors[k].source = "telegram"}
\* The wait the channel asked for with a rate-limit answer, 30 s when it named none.
SuggestedWait(o) == IF o.retry = NoRetry THEN 30 ELSE o.retry

\* C1: save_posted_url is called for a message only if the channel accepted
\* that message; the URL of a message whose send failed is never recorded.
C1_SavedOnlyIfAccepted == save_calls \subseteq accepted

\* C2: send_messages_to_telegram returns the number of messages of the list
\* that the channel accepted.
C2_ReturnsAcceptedCount == Delivered => post_count = Cardinality(accepted)

\* C3: the success flag passed to record_run_complete is true exactly when no
\* stage raised and every formatted message was accepted by the channel.
C3_SuccessIffAllAccepted ==
    pc = "complete" => (success <=> (~raised /\ accepted = Positions))

\* C4: whichever stage fails, the run ends with exactly one call of
\* record_run_complete after the one of record_run_start, and no exception
\* leaves it: a run in progress has made the first call only, a run that is
\* over has made both.
C4_CompleteOncePerRun ==
    /\ pc \in {"idle", "fetch", "clean", "categorize", "format", "send",
               "rl_sleep", "delay", "report", "complete"}
    /\ pc # "idle" => monitor_calls = <<"start">>
    /\ (pc = "idle" /\ runs > 0) => monitor_calls = <<"start", "complete">>
    /\ status.successful_runs + status.failed_runs
          = status.total_runs - (IF pc = "idle" THEN 0 ELSE 1)

\* A run is over in which a stage raised.
C4_Witness ==
    /\ pc = "idle"
    /\ monitor_calls = <<"start", "complete">>
    /\ temp_errors # <<>>
    /\ temp_errors[1].source = "pipeline"

\* C5: after a rate-limit answer for message i, delivery waits at least the
\* suggested time (30 s when none is given) and the next request is for the
\* same message i; the message is not skipped, and a delivery in which no
\* message was refused counts every message.
C5_RateLimitRetried ==
    /\ (ctx = "delivery" /\ last_request.o.kind = "rate_limit") =>
          /\ pc \in {"rl_sleep", "send"}
          /\ idx = last_request.i
          /\ idx \notin Answered
          /\ pc = "rl_sleep" => sleep_for >= SuggestedWait(last_request.o)
          /\ pc = "send" => slept >= SuggestedWait(last_request.o)
    /\ (Delivered /\ failed = {}) =>
          /\ accepted = Positions
          /\ post_count = Len(messages)

\* Message 2 of 3 was rate-limited with "retry after 5", the wait is over and
\* message 2 is about to be sent again.
C5_Witness ==
    /\ pc = "send"
    /\ ctx = "delivery"
    /\ Len(messages) = 3
    /\ idx = 2
    /\ accepted = {1}
    /\ last_request = [i |-> 2, o |-> Outcome("rate_limit", 5), slept |-> MESSAGE_DELAY]
    /\ slept >= 5

\* C6: delivery of a message list always finishes, whatever the channel answers.
C6_DeliveryFinishes == Delivering ~> ~Delivering

\* C7: messages are requested in list order; a message refused for another
\* reason than a rate limit is not requested again and does not end the
\* delivery: when the delivery is over every message was requested.
C7_InOrderNoRetryNoStop ==
    /\ accepted \cap failed = {}
    /\ (Delivering /\ pc \in {"send", "rl_sleep"}) => Answered = 1..(idx - 1)
    /\ (Delivering /\ pc = "delay") => Answered = 1..idx
    /\ Delivered => Answered = Positions

\* The delivery is over, the first message was refused, a later one accepted.
C7_Witness ==
    /\ pc = "complete"
    /\ Len(messages) >= 2
    /\ 1 \in failed
    /\ 2 \in accepted

\* C8: every refused message adds one entry to the monitor's buffer of the
\* current run.
C8_FailureRecorded ==
    pc # "idle" => Cardinality(TelegramErrors) = Cardinality(failed)

\* C13: no URL occurs in more than one entry of the ledger storage.
C13_UrlsUniqueInLedger ==
    \A i, j \in 1..Len(posted_urls_file) :
        i # j => TextOf(posted_urls_file[i]) # TextOf(posted_urls_file[j])

\* Delivery is suspended between two requests
Suspended == ctx = "delivery" /\ pc \in {"delay", "rl_sleep"}
\* The ledger storage holds an entry written in this run for the URL
Recorded(url) ==
    \E k \in 1..Len(posted_urls_file) :
        posted_urls_file[k].url = url /\ posted_urls_file[k].ts = now

\* C17 as stated: whenever delivery is suspended, the URL of every message
\* the channel accepted so far in the run is recorded in the ledger storage.
C17_AcceptedRecordedWhenSuspended ==
    Suspended => \A i \in accepted : Recorded(messages[i].url)

\* C17, amended: the same, in a run whose ledger writes succeed; a load at
\* that point then returns each of these URLs, so that a restarted run
\* formats none of them.
C17_AcceptedRecordedIfWritable ==
    (Suspended /\ storage_ok) =>
        \A i \in accepted :
            /\ Recorded(messages[i].url)
            /\ messages[i].url \in load_posted_urls(posted_urls_file, now, TRUE).urls

\* The first message was accepted and saved; delivery waits before the second.
C17_Witness ==
    /\ pc = "delay"
    /\ ctx = "delivery"
    /\ storage_ok
    /\ accepted = {1}
    /\ idx = 1
    /\ Len(messages) >= 2
    /\ Recorded(messages[1].url)

\* A step in which the run ends
CompleteStep == pc = "complete" /\ pc' = "idle"
\* The texts load_posted_urls reads as URLs in the lines of the storage
LedgerTexts == {TextOf(posted_urls_file[k]) : k \in 1..Len(posted_urls_file)}
ScenarioUrls == {"A", "B", "C"}

\* C12 as stated: the first run formats 3 messages; when it has sent them all
\* the ledger contains A, B and C; and a run that follows on such a ledger
\* formats 0 messages.
C12_RerunFormatsNothing ==
    [][/\ (FormatStep /\ runs = 1) => Len(messages') = 3
       /\ (CompleteStep /\ runs = 1 /\ ~raised /\ accepted = Positions)
             => ScenarioUrls \subseteq LedgerTexts
       /\ (FormatStep /\ runs = 2 /\ ScenarioUrls \subseteq LedgerTexts)
             => messages' = <<>>]_vars

\* C12, amended: the same when the ledger can be written in the first run
\* and read in the second.
C12_RerunFormatsNothingIfStored ==
    [][/\ (FormatStep /\ runs = 1) => Len(messages') = 3
       /\ (CompleteStep /\ runs = 1 /\ ~raised /\ accepted = Positions /\ storage_ok)
             => ScenarioUrls \subseteq LedgerTexts
       /\ (FormatStep /\ runs = 2 /\ ScenarioUrls \subseteq LedgerTexts /\ storage_ok)
             => messages' = <<>>]_vars

\* The second run has formatted: the three items are there again, the load
\* returned A, B and C, and there is no message.
C12_Witness ==
    /\ runs = 2
    /\ pc = "report"
    /\ storage_ok
    /\ Len(cleaned_data) = 3
    /\ posted_urls = ScenarioUrls
    /\ messages = <<>>

\* A step in which the process dies
CrashStep == pc # "down" /\ pc' = "down"

\* C16: when the process dies during a save of the status file or during
\* the rewrite of the purge, the next start loads the status the file held
\* before or the status being written, with run counters that were not
\* reset, and the ledger still holds every entry the purge was keeping.
C16_CrashLeavesFilesUsable ==
    [][CrashStep =>
         /\ load_status(status_file') \in {status_file, status'}
         /\ load_status(status_file').total_runs >= status_file.total_runs
         /\ pc = "format" =>
               \A v \in EntriesOf(purge_old_urls(posted_urls_file)) :
                  v \in EntriesOf(posted_urls_file')]_vars

(***************************************************************************)
(* Properties of the Run Record.                                           *)
(***************************************************************************)
\* The step of record_run_start
StartStep == pc = "idle" /\ pc' = "fetch"

\* The counters of a status record
Counters(st) ==
    <<st.total_runs, st.successful_runs, st.failed_runs, st.posts_count>>

\* What record_run_start changes, field by field
StartEffect ==
    /\ status'.total_runs = status.total_runs + 1
    /\ status'.last_run_timestamp = now'
    /\ status'.successful_runs = status.successful_runs
    /\ status'.failed_runs = status.failed_runs
    /\ status'.posts_count = status.posts_count

\* What record_run_complete changes in the counters
CompleteEffect ==
    /\ status'.successful_runs =
          status.successful_runs + (IF success THEN 1 ELSE 0)
    /\ status'.failed_runs = status.failed_runs + (IF success THEN 0 ELSE 1)
    /\ status'.posts_count = status.posts_count + post_count
    /\ status'.total_runs = status.total_runs
    /\ status'.last_run_timestamp = status.last_run_timestamp

MaxMonitorRuns == 3
MaxRunErrors == 2

\* The error list 49 earlier runs with one error each left, newest first
ErrorsBefore ==
    [i \in 1..(MAX_ERRORS - 1) |-> ErrorEntry("s1", "fetch", Epoch - i)]

\* status_monitor.py:30-37: the status of a monitor that has run before
UsedStatus ==
    [last_run_timestamp |-> Epoch - 1, total_runs |-> 60,
     successful_runs |-> 11, failed_runs |-> 49, errors |-> ErrorsBefore,
     posts_count |-> 5, sources_status |-> [s \in SourceNames |-> 1]]

\* The mappings record_run_complete may be given: none, every source, and
\* the one source of a configuration that names s1 only
RunStatuses ==
    { NoStatuses, [s \in SourceNames |-> 0], [s \in {"s1"} |-> 2] }

MonitorInit ==
    /\ now = Epoch
    /\ storage_ok = TRUE
    /\ posted_urls_file = <<>>
    /\ status \in {FreshStatus, UsedStatus}
    /\ status_file = status
    /\ temp_errors = <<>>
    /\ DEFAULT_CATEGORIES = EmptyCategories
    /\ pc = "idle"
    /\ run_id = 0
    /\ raw_data = <<>>
    /\ source_statuses = NoStatuses
    /\ cleaned_data = <<>>
    /\ messages = <<>>
    /\ post_count = 0
    /\ success = TRUE
    /\ posted_urls = {}
    /\ idx = 0
    /\ sent_count = 0
    /\ ctx = "none"
    /\ sleep_for = 0
    /\ runs = 0
    /\ accepted = {}
    /\ failed = {}
    /\ last_request = NoRequest
    /\ slept = 0
    /\ save_calls = {}
    /\ rl_count = 0
    /\ monitor_calls = <<>>
    /\ raised = FALSE
    /\ health = NoHealth
    /\ fetches = NoFetches

monitorRest ==
    <<storage_ok, ledgerVars, DEFAULT_CATEGORIES, raw_data, cleaned_data,
      messages, posted_urls, sendVars, historyVars>>

\* main.py:162-167
MonitorStart ==
    /\ pc = "idle"
    /\ runs < MaxMonitorRuns
    /\ now' = now + 1
    /\ status' = record_run_start(status, now')
    /\ status_file' = save_status(status', status_file, storage_ok)
    /\ temp_errors' = <<>>
    /\ run_id' = status'.total_runs
    /\ source_statuses' = NoStatuses
    /\ post_count' = 0
    /\ success' = TRUE
    /\ pc' = "running"
    /\ runs' = runs + 1
    /\ UNCHANGED monitorRest

\* main.py:81, main.py:208, data_fetcher.py:157, 237: record_error; the
\* clock has moved on since the call before
MonitorError ==
    /\ pc = "running"
    /\ Len(temp_errors) < MaxRunErrors
    /\ now' = now + 1
    /\ temp_errors' = record_error(temp_errors, "s1", "failed", now')
    /\ UNCHANGED <<status, status_file, pc, run_id, source_statuses,
                   post_count, success, runs, monitorRest>>

\* main.py:177-209: the run reaches line 212 with its three locals
MonitorRunEnds ==
    /\ pc = "running"
    /\ success' \in BOOLEAN
    /\ post_count' \in {0, 2}
    /\ source_statuses' \in RunStatuses
    /\ pc' = "complete"
    /\ UNCHANGED <<now, monitorVars, run_id, runs, monitorRest>>

\* main.py:212
MonitorComplete ==
    /\ pc = "complete"
    /\ status' = record_run_complete(status, success, post_count,
                                     source_statuses, temp_errors)
    /\ status_file' = save_status(status', status_file, storage_ok)
    /\ pc' = "idle"
    /\ run_id' = 0
    /\ source_statuses' = NoStatuses
    /\ post_count' = 0
    /\ success' = TRUE
    /\ UNCHANGED <<now, temp_errors, runs, monitorRest>>

MonitorNext ==
    \/ MonitorStart
    \/ MonitorError
    \/ MonitorRunEnds
    \/ MonitorComplete

MonitorSpec == MonitorInit /\ [][MonitorNext]_vars

\* The entry at position i was recorded no earlier than the one after it
NewestFirst(errors) ==
    \A i \in 1..(Len(errors) - 1) :
       errors[i].timestamp >= errors[i + 1].timestamp

\* The entries of a list
Entries(errors) == {errors[i] : i \in 1..Len(errors)}

\* C22: after every record_run_complete the durable error list has at most
\* 50 entries and is ordered newest first: each entry was recorded no earlier
\* than the entry that follows it, and the entries dropped for the cap are no
\* newer than any entry kept.
C22_ErrorsCappedNewestFirst ==
    [][CompleteStep =>
         /\ Len(status'.errors) <= MAX_ERRORS
         /\ NewestFirst(status'.errors)
         /\ \A d \in (Entries(temp_errors) \cup Entries(status.errors))
                         \ Entries(status'.errors) :
               \A k \in Entries(status'.errors) :
                  d.timestamp <= k.timestamp]_vars

\* C23: record_run_complete merges the run's per-source statuses into the
\* stored mapping: every source named in the run gets its new status, and
\* the stored status of a source the run does not name is left unchanged.
C23_SourceStatusesMerged ==
    [][CompleteStep =>
         /\ \A s \in DOMAIN source_statuses :
               /\ s \in DOMAIN status'.sources_status
               /\ status'.sources_status[s] = source_statuses[s]
         /\ \A s \in DOMAIN status.sources_status \ DOMAIN source_statuses :
               /\ s \in DOMAIN status'.sources_status
               /\ status'.sources_status[s] = status.sources_status[s]]_vars

(***************************************************************************)
(* get_health_status alone: a status a monitor can hold, a clock in        *)
(* seconds, and the status report that asks for the health.                *)
(***************************************************************************)
MaxHealthRuns == 10

\* A status with t runs recorded of which f failed, the last started at Epoch
StatusOf(t, f) ==
    [FreshStatus EXCEPT !.last_run_timestamp = Epoch, !.total_runs = t,
                        !.failed_runs = f, !.successful_runs = t - f]

\* The statuses of a monitor between two runs
HealthStatuses ==
    {FreshStatus} \cup
    UNION { {StatusOf(t, f) : f \in 0..t} : t \in 1..MaxHealthRuns }

\* Seconds since Epoch at which the health is asked for
HealthAges ==
    {0, EXPECTED_INTERVAL, EXPECTED_INTERVAL * 2, EXPECTED_INTERVAL * 2 + 1}

HealthInit ==
    /\ now = Epoch
    /\ storage_ok = TRUE
    /\ posted_urls_file = <<>>
    /\ status \in HealthStatuses
    /\ status_file = status
    /\ temp_errors = <<>>
    /\ DEFAULT_CATEGORIES = EmptyCategories
    /\ pc = "idle"
    /\ run_id = 0
    /\ raw_data = <<>>
    /\ source_statuses = NoStatuses
    /\ cleaned_data = <<>>
    /\ messages = <<>>
    /\ post_count = 0
    /\ success = TRUE
    /\ posted_urls = {}
    /\ idx = 0
    /\ sent_count = 0
    /\ ctx = "none"
    /\ sleep_for = 0
    /\ runs = 0
    /\ accepted = {}
    /\ failed = {}
    /\ last_request = NoRequest
    /\ slept = 0
    /\ save_calls = {}
    /\ rl_count = 0
    /\ monitor_calls = <<>>
    /\ raised = FALSE
    /\ health = NoHealth
    /\ fetches = NoFetches

\* Time passes with no run
HealthTick ==
    /\ pc = "idle"
    /\ \E a \in HealthAges : now < Epoch + a /\ now' = Epoch + a
    /\ UNCHANGED <<storage_ok, ledgerVars, monitorVars, DEFAULT_CATEGORIES, pc,
                   localVars, sendVars, runs, historyVars>>

\* status_monitor.py:124-130: send_status_report asks for the health
StatusReport ==
    /\ pc = "idle"
    /\ health' = get_health_status(status, now)
    /\ pc' = "reported"
    /\ UNCHANGED <<envVars, ledgerVars, monitorVars, DEFAULT_CATEGORIES,
                   localVars, sendVars, runs, accepted, failed, last_request,
                   slept, save_calls, rl_count, monitor_calls, raised,
                   fetches>>

HealthNext == HealthTick \/ StatusReport

HealthSpec == HealthInit /\ [][HealthNext]_vars

\* The two answers that report the bot unhealthy
Unhealthy(h) ==
    h \in {"Unhealthy - Last run too long ago", "Unhealthy - High error rate"}

\* The most recent run started more than twice the expected interval ago
StaleRun ==
    /\ status.total_runs > 0
    /\ now - status.last_run_timestamp > 2 * EXPECTED_INTERVAL

\* failed_runs / total_runs is strictly greater than 30%
HighRate ==
    /\ status.total_runs > 0
    /\ 10 * status.failed_runs > 3 * status.total_runs

\* The answer by age and failure rate, with the three named cases
ByAgeAndRate ==
    /\ IF StaleRun \/ HighRate THEN Unhealthy(health) ELSE health = "Healthy"
    /\ (status.total_runs = 10 /\ status.failed_runs = 4) => Unhealthy(health)
    /\ (status.total_runs = 10 /\ status.failed_runs \in {1, 3} /\ ~StaleRun)
          => health = "Healthy"

\* C24 as stated: get_health_status answers Unhealthy when the most recent
\* run started more than twice the expected interval ago or more than 30% of
\* the runs failed, and Healthy otherwise (4 of 10 Unhealthy, 1 of 10 and 3
\* of 10 Healthy).
C24_HealthByAgeAndRate == pc = "reported" => ByAgeAndRate

\* C24 amended: the same once a run has been recorded; with no run recorded
\* the answer is Unknown.
C24_HealthByAgeAndRateOnceRun ==
    pc = "reported" =>
       IF status.total_runs > 0 THEN ByAgeAndRate ELSE health = "Unknown"

\* Exactly 30% of 10 runs failed, asked within the interval: Healthy
C24_Witness ==
    /\ pc = "reported"
    /\ status.total_runs = 10
    /\ status.failed_runs = 3
    /\ now = Epoch + EXPECTED_INTERVAL * 2
    /\ health = "Healthy"

(***************************************************************************)
(* DataFetcher.fetch_data alone, source by source.  A parameter value is   *)
(* the sequence of its characters.                                         *)
(***************************************************************************)
RealKey == <<"a", "b", "c">>
YourKey == <<"Y", "O", "U", "R", "_", "K", "E", "Y">>
Placeholder == <<"P", "L", "A", "C", "E", "H", "O", "L", "D", "E", "R">>
NoParams == [k \in {} |-> <<>>]

Source(name, type, category, params) ==
    [name |-> name, type |-> type, category |-> category, params |-> params]

\* DataFetcher.sources: two websites, and api sources with a real key, with
\* a YOUR_ key, with an empty token, with PLACEHOLDER, with no key at all,
\* and with a placeholder under a name that is not in the list of line 85
FetchSources ==
    << Source("w1", "website", "news", NoParams),
       Source("a_ok", "api", "events", [k \in {"api_key"} |-> RealKey]),
       Source("a_your", "api", "events", [k \in {"api_key"} |-> YourKey]),
       Source("a_empty", "api", "jobs", [k \in {"token"} |-> <<>>]),
       Source("a_ph", "api", "jobs", [k \in {"key"} |-> Placeholder]),
       Source("a_none", "api", "facts", [k \in {"q"} |-> RealKey]),
       Source("a_other", "api", "facts", [k \in {"client_secret"} |-> YourKey]),
       Source("w2", "website", "news", NoParams) >>

FetchNames == {FetchSources[k].name : k \in 1..Len(FetchSources)}

\* What the network does with the request for one source: the source
\* answers, there is no usable response, or the content makes the parser
\* raise.
FetchAnswers == {"ok", "no_response", "raises"}

\* What a source holds: for a website the articles of the page, for an api
\* the entries of the response, one of them without a title
Payload(name) ==
    IF name = "w1" THEN <<Item("", "tA", "A", "", "")>>
    ELSE IF name = "w2" THEN <<Item("", "tB", "B", "", ""), Item("", "tC", "C", "", "")>>
    ELSE <<Item("", "tE", name, "", ""), Item("", "", "F", "", "")>>

\* data_fetcher.py:86: value.startswith('YOUR_')
StartsWith(value, prefix) ==
    /\ Len(value) >= Len(prefix)
    /\ SubSeq(value, 1, Len(prefix)) = prefix

\* data_fetcher.py:86
InvalidValue(value) ==
    \/ value = <<>>
    \/ StartsWith(value, <<"Y", "O", "U", "R", "_">>)
    \/ value = Placeholder

\* data_fetcher.py:85
CredentialKeys == {"key", "token", "api_key", "apikey", "access_token"}

\* data_fetcher.py:81-88
has_valid_credentials(source) ==
    \A key \in DOMAIN source.params :
       key \in CredentialKeys => ~InvalidValue(source.params[key])

\* data_fetcher.py:284-312: entries without title or url are dropped
RECURSIVE normalize_api_items(_, _)
normalize_api_items(items, source) ==
    IF items = <<>> THEN <<>>
    ELSE LET item == Head(items)
             rest == normalize_api_items(Tail(items), source)
         IN  IF item.title = "" \/ item.url = "" THEN rest
             ELSE <<[item EXCEPT !.source = source.name,
                                 !.category = source.category]>> \o rest

\* data_fetcher.py:65-70: category and source are filled in where missing
Tagged(data, source) ==
    [i \in 1..Len(data) |->
        [data[i] EXCEPT
            !.category = IF @ = "" THEN source.category ELSE @,
            !.source = IF @ = "" THEN source.name ELSE @]]

\* data_fetcher.py:52-63, the body of the try for one source: whether it
\* leaves the try with an exception, the data, and whether a request went out.
\* _fetch_from_website returns [] for every failure (safely_execute);
\* _fetch_from_api returns [] without a response and lets the exceptions of
\* lines 262-279 through.
FetchOne(source, answer) ==
    IF source.type = "website"
    THEN [exc |-> FALSE, asked |-> {source.name},
          data |-> IF answer = "ok" THEN Payload(source.name) ELSE <<>>]
    ELSE IF source.type = "api"
    THEN IF ~has_valid_credentials(source)
         THEN [exc |-> FALSE, asked |-> {}, data |-> <<>>]
         ELSE IF answer = "raises"
         THEN [exc |-> TRUE, asked |-> {source.name}, data |-> <<>>]
         ELSE [exc |-> FALSE, asked |-> {source.name},
               data |-> IF answer = "ok"
                        THEN normalize_api_items(Payload(source.name), source)
                        ELSE <<>>]
    ELSE [exc |-> FALSE, asked |-> {}, data |-> <<>>]

\* A variant of the loop of fetch_data without the except clause of line 75
RECURSIVE FetchLoop_uncaught(_, _, _, _)
FetchLoop_uncaught(srcs, k, world, acc) ==
    IF k > Len(srcs) THEN acc
    ELSE LET r == FetchOne(srcs[k], world[srcs[k].name])
         IN  IF r.exc
             THEN [raised |-> TRUE, data |-> <<>>,
                   asked |-> acc.asked \cup r.asked]
             ELSE FetchLoop_uncaught(srcs, k + 1, world,
                     [acc EXCEPT !.data = @ \o Tagged(r.data, srcs[k]),
                                 !.asked = @ \cup r.asked])

\* data_fetcher.py:50-77: for source in self.sources
RECURSIVE FetchLoop(_, _, _, _)
FetchLoop(srcs, k, world, acc) ==
    IF k > Len(srcs) THEN acc
    ELSE LET r == FetchOne(srcs[k], world[srcs[k].name])
         IN  IF r.exc
             THEN FetchLoop(srcs, k + 1, world,
                     [acc EXCEPT !.asked = @ \cup r.asked])
             ELSE FetchLoop(srcs, k + 1, world,
                     [acc EXCEPT !.data = @ \o Tagged(r.data, srcs[k]),
                                 !.asked = @ \cup r.asked])

\* data_fetcher.py:42-79
fetch_data(srcs, world) ==
    FetchLoop(srcs, 1, world, [raised |-> FALSE, data |-> <<>>, asked |-> {}])

\* main.py:28-44 for the sources of FetchSources
CountBySource(data_items, names) ==
    [s \in names |->
        Cardinality({i \in 1..Len(data_items) : data_items[i].source = s})]

FetchInit ==
    /\ now = Epoch
    /\ storage_ok \in BOOLEAN
    /\ posted_urls_file = <<>>
    /\ status = record_run_start(LoadedStatus, now)
    /\ status_file = save_status(status, LoadedStatus, storage_ok)
    /\ temp_errors = <<>>
    /\ DEFAULT_CATEGORIES = EmptyCategories
    /\ pc = "fetch"
    /\ run_id = status.total_runs
    /\ raw_data = <<>>
    /\ source_statuses = NoStatuses
    /\ cleaned_data = <<>>
    /\ messages = <<>>
    /\ post_count = 0
    /\ success = TRUE
    /\ posted_urls = {}
    /\ idx = 0
    /\ sent_count = 0
    /\ ctx = "none"
    /\ sleep_for = 0
    /\ runs = 1
    /\ accepted = {}
    /\ failed = {}
    /\ last_request = NoRequest
    /\ slept = 0
    /\ save_calls = {}
    /\ rl_count = 0
    /\ monitor_calls = <<"start">>
    /\ raised = FALSE
    /\ health = NoHealth
    /\ fetches = NoFetches

\* main.py:173-177 with fetch_data source by source; an exception that
\* leaves fetch_data is caught at main.py:206-209
FetchData ==
    /\ pc = "fetch"
    /\ \E world \in [FetchNames -> FetchAnswers] :
          LET r == fetch_data(FetchSources, world)
          IN  /\ fetches' = [n \in FetchNames |->
                               IF n \in r.asked THEN world[n] ELSE "skipped"]
              /\ IF r.raised
                 THEN /\ temp_errors' = record_error(temp_errors, "pipeline",
                                           "data_collection_pipeline", now)
                      /\ success' = FALSE
                      /\ raised' = TRUE
                      /\ pc' = "complete"
                      /\ UNCHANGED <<raw_data, source_statuses>>
                 ELSE /\ raw_data' = r.data
                      /\ source_statuses' = CountBySource(r.data, FetchNames)
                      /\ pc' = "clean"
                      /\ UNCHANGED <<temp_errors, success, raised>>
    /\ UNCHANGED <<envVars, ledgerVars, status, status_file,
                   DEFAULT_CATEGORIES, run_id, cleaned_data, messages,
                   post_count, posted_urls, sendVars, runs, accepted, failed,
                   last_request, slept, save_calls, rl_count, monitor_calls,
                   health>>

FetchSpec == FetchInit /\ [][FetchData]_vars

(***************************************************************************)
(* Properties of fetch_data.                                               *)
(***************************************************************************)
\* The items of raw_data that carry the name of a source, in their order
ItemsFrom(name) == SelectSeq(raw_data, LAMBDA item : item.source = name)

\* The configuration entry of a name
SourceNamed(name) ==
    CHOOSE source \in {FetchSources[k] : k \in 1..Len(FetchSources)} :
       source.name = name

\* The entries of a source that have a title and a url, named after it
ItemsHeld(name) ==
    LET source == SourceNamed(name)
    IN  IF source.type = "api"
        THEN normalize_api_items(Payload(name), source)
        ELSE Tagged(Payload(name), source)

\* C25: fetch_data never raises to its caller: a source whose fetch or parse
\* failed contributes no item, and every source that answered contributes
\* its items, whichever sources failed before it.
C25_FailedSourceIsolated ==
    pc # "fetch" =>
       /\ ~raised
       /\ pc = "clean"
       /\ \A n \in FetchNames :
             ItemsFrom(n) = IF fetches[n] = "ok" THEN ItemsHeld(n) ELSE <<>>
       /\ Len(raw_data) =
             Cardinality({i \in 1..Len(raw_data) : raw_data[i].source \in FetchNames})

\* An api source raised, a website gave no response, and the website
\* configured after both delivered its two items
C25_Witness ==
    /\ pc = "clean"
    /\ fetches["a_ok"] = "raises"
    /\ fetches["w1"] = "no_response"
    /\ fetches["w2"] = "ok"
    /\ raw_data = ItemsHeld("w2")

\* A source has one of the parameters of line 85, and none of them is empty
\* or a placeholder
CredentialsPresent(source) ==
    /\ DOMAIN source.params \cap CredentialKeys # {}
    /\ \A key \in DOMAIN source.params \cap CredentialKeys :
          ~InvalidValue(source.params[key])

\* C26: fetch_data issues a request for an api source only if its
\* credential-like parameters are present and none of them is empty or a
\* placeholder; every other api source is skipped: no request, no items.
C26_RequestOnlyWithCredentials ==
    pc = "clean" =>
       \A k \in 1..Len(FetchSources) :
          LET source == FetchSources[k]
          IN  (source.type = "api" /\ ~CredentialsPresent(source)) =>
                 /\ fetches[source.name] = "skipped"
                 /\ ItemsFrom(source.name) = <<>>

(***************************************************************************)
(* get_and_format_description alone.  A description is the sequence of its *)
(* characters: a letter, a full stop, a blank.                             *)
(***************************************************************************)
\* The limit of message_formatter.py:180.  The program sets 500; the model
\* takes a small limit so that texts over it fit.  Every use compares a
\* length or a position with it or cuts a text at it.
max_chars == 5
MaxDescLen == 7

DescChars == {"a", ".", " "}

\* message_formatter.py:111-116; of the characters of DescChars the full
\* stop is the one in escape_chars
RECURSIVE escape_markdown_v2(_)
escape_markdown_v2(text) ==
    IF text = <<>> THEN <<>>
    ELSE (IF Head(text) = "." THEN <<"\\", ".">> ELSE <<Head(text)>>)
         \o escape_markdown_v2(Tail(text))

\* str.strip() = ''
Blank(text) == \A i \in 1..Len(text) : text[i] = " "

\* str.rfind('.') + 1: the last position of a full stop, 0 when there is none
LastStop(text) ==
    LET stops == {i \in 1..Len(text) : text[i] = "."}
    IN  IF stops = {} THEN 0
        ELSE CHOOSE i \in stops : \A j \in stops : j <= i

\* message_formatter.py:168-189 for a description that needs no clean-up:
\* cut_point > max_chars * 0.6 is compared in whole numbers
get_and_format_description(desc) ==
    IF Blank(desc) THEN <<>>
    ELSE LET escaped_desc == escape_markdown_v2(desc)
             window == SubSeq(escaped_desc, 1, Min2(Len(escaped_desc), max_chars))
             cut_point == LastStop(window) - 1
         IN  IF Len(escaped_desc) > max_chars /\ 10 * cut_point > 6 * max_chars
             THEN SubSeq(escaped_desc, 1, cut_point + 1)
             ELSE escaped_desc

\* An item with a description
Described(desc) ==
    [id |-> "", title |-> "tA", url |-> "A", category |-> "news",
     source |-> "s1", description |-> desc]

\* message_formatter.py:200-250: the message of an item, with the
\* description line it carries
DescribedMessageOf(item) ==
    [text |-> item.title, url |-> item.url,
     description |-> get_and_format_description(item.description)]

DescInit ==
    /\ now = Epoch
    /\ storage_ok = TRUE
    /\ posted_urls_file = <<>>
    /\ status = record_run_start(LoadedStatus, now)
    /\ status_file = status
    /\ temp_errors = <<>>
    /\ \E desc \in SeqsUpTo(DescChars, MaxDescLen) :
          /\ raw_data = <<Described(desc)>>
          /\ cleaned_data = raw_data
          /\ DEFAULT_CATEGORIES = [EmptyCategories EXCEPT !["news"] = raw_data]
    /\ pc = "format"
    /\ run_id = status.total_runs
    /\ source_statuses = update_source_statistics(raw_data)
    /\ messages = <<>>
    /\ post_count = 0
    /\ success = TRUE
    /\ posted_urls = {}
    /\ idx = 0
    /\ sent_count = 0
    /\ ctx = "none"
    /\ sleep_for = 0
    /\ runs = 1
    /\ accepted = {}
    /\ failed = {}
    /\ last_request = NoRequest
    /\ slept = 0
    /\ save_calls = {}
    /\ rl_count = 0
    /\ monitor_calls = <<"start">>
    /\ raised = FALSE
    /\ health = NoHealth
    /\ fetches = NoFetches

\* main.py:187-197 for the one item, with the description of its message
FormatDescribed ==
    /\ pc = "format"
    /\ LET loaded == load_posted_urls(posted_urls_file, now, storage_ok)
       IN  /\ posted_urls' = loaded.urls
           /\ posted_urls_file' = loaded.file
    /\ messages' = [i \in 1..Len(DEFAULT_CATEGORIES["news"]) |->
                       DescribedMessageOf(DEFAULT_CATEGORIES["news"][i])]
    /\ pc' = "send"
    /\ ctx' = "delivery"
    /\ idx' = 1
    /\ sent_count' = 0
    /\ UNCHANGED <<envVars, monitorVars, DEFAULT_CATEGORIES, run_id, raw_data,
                   source_statuses, cleaned_data, post_count, success,
                   sleep_for, runs, historyVars>>

DescSpec == DescInit /\ [][FormatDescribed]_vars

\* C27: the description put into a message is never longer than the
\* maximum: it is the escaped text when that fits, and a beginning of it of
\* at most the maximum length otherwise.
C27_DescriptionAtMostMax ==
    pc = "send" =>
       \A i \in 1..Len(messages) :
          LET escaped == escape_markdown_v2(raw_data[i].description)
              out == messages[i].description
          IN  /\ Len(out) <= max_chars
              /\ Len(out) <= Len(escaped)
              /\ Blank(raw_data[i].description)
                    \/ out = SubSeq(escaped, 1, Len(out))

(***************************************************************************)
(* Two sources report the same article under two titles: an empty ledger,  *)
(* and in every run s1 and s2 each return an item with URL A.              *)
(***************************************************************************)
ItATwin == Item("", "tA2", "A", "news", "s2")

TwinOutput == <<ItA, ItATwin>>

TwinInit == Init /\ posted_urls_file = <<>>

TwinFetch == FetchFrom({TwinOutput})

TwinNext ==
    \/ StartRun
    \/ TwinFetch
    \/ Clean
    \/ Categorize
    \/ Format
    \/ StageRaises
    \/ ChannelAccepts
    \/ ChannelFails
    \/ ChannelRateLimits(TRUE)
    \/ RetryAfterSleep
    \/ DelayElapsed
    \/ Report
    \/ Complete

TwinSpec == TwinInit /\ [][TwinNext]_vars

\* C28: within one run no URL is sent to the channel more than once: the
\* messages the channel accepted in a run whose ledger can be read and
\* written have different URLs.
C28_UrlSentOncePerRun ==
    storage_ok =>
       \A i \in accepted : \A j \in accepted :
          i # j => messages[i].url # messages[j].url

\* C29: if an input item of identifier X has a title and a url, the output
\* of clean_data holds an item of identifier X, whichever items of the same
\* identifier come before it.
C29_RelevantIdentifierKept ==
    Cleaned =>
       \A i \in 1..Len(raw_data) :
          is_relevant(raw_data[i]) =>
             \E j \in 1..Len(cleaned_data) :
                Identifier(cleaned_data[j]) = Identifier(raw_data[i])

\* The runs counted as ended are among the runs counted as started, and are
\* all of them when no run is in progress
RunsBalanced(st, position) ==
    /\ st.successful_runs + st.failed_runs <= st.total_runs
    /\ position = "idle" => st.successful_runs + st.failed_runs = st.total_runs

\* C30: in every state reached by runs of record_run_start, record_error,
\* record_run_complete, successful_runs + failed_runs <= total_runs, with
\* equality when no run is in progress, and no step decreases total_runs,
\* successful_runs, failed_runs or posts_count.
C30_CountersBalancedAndMonotone ==
    [][/\ RunsBalanced(status, pc)
       /\ RunsBalanced(status', pc')
       /\ \A k \in 1..Len(Counters(status)) :
             Counters(status')[k] >= Counters(status)[k]]_vars

\* From a fresh status, two runs have ended, one failed and one with posts
C30_Witness ==
    /\ pc = "idle"
    /\ status.total_runs = 2
    /\ status.successful_runs = 1
    /\ status.failed_runs = 1
    /\ status.posts_count = 2

====
